---- MODULE Spec2Model ----
(***************************************************************************)
(* Model of src/app.py: a Telegram bot that relays text to the Gemini API. *)
(* One shared asyncio event loop (application_event_loop) carries every    *)
(* bot-framework coroutine; Flask request threads enter it with            *)
(* run_until_complete.                                                     *)
(***************************************************************************)
EXTENDS Integers, Sequences, FiniteSets, TLC

\* ---------------------------------------------------------------- bounds
NumThreads == 2          \* concurrent Flask request threads / concurrent callers
MaxTextLen == 5          \* longest generated text, in units
MaxMessageLength == 2    \* the platform limit (4096 in the source), scaled down
MaxBodyLen == 1          \* longest upstream error body, in units
MaxInitInvocations == 3  \* init_application invocations in the harness

\* ------------------------------------------------------------ value sets
MainThread == 0
Threads == 1..NumThreads
AllThreads == 0..NumThreads
NoThread == -1
NoLoop == 0
Loops == 1..(NumThreads + 1)

Alphabet == {"a", "b"}
Names == {"An", "Binh"}

RECURSIVE SeqsUpTo(_, _)
SeqsUpTo(S, n) ==
    IF n = 0 THEN {<<>>}
    ELSE LET shorter == SeqsUpTo(S, n - 1)
         IN  shorter \cup {Append(s, c) : s \in {x \in shorter : Len(x) = n - 1}, c \in S}

Texts == SeqsUpTo(Alphabet, MaxTextLen)
Bodies == SeqsUpTo(Alphabet, MaxBodyLen)
ErrorStatuses == {400, 503}
MandatoryVars == {"TELEGRAM_TOKEN", "GEMINI_API_KEY"}

\* ----------------------------------------------------------------- state
VARIABLES
    application_event_loop,  \* the module global: NoLoop (None) or a loop id
    initialized,             \* the module global flag
    running,                 \* per loop: the thread inside run_until_complete, or NoThread
    loopsCreated,            \* how many asyncio.new_event_loop() calls were made
    initializeCalls,         \* how many application.initialize() calls were made
    initInvocations,         \* how many init_application() invocations were made
    pc,                      \* per thread: position in its handler / coroutine
    req,                     \* per thread: the request or update being handled
    task,                    \* per thread: locals of the coroutine it runs
    sent,                    \* per thread: outbound Bot API calls of the running task
    resp,                    \* per thread: the HTTP response of the handler it ran
    environ,                 \* the mandatory environment variables that are set
    missing_vars             \* the module global list built at import

vars == <<application_event_loop, initialized, running, loopsCreated, initializeCalls,
          initInvocations, pc, req, task, sent, resp, environ, missing_vars>>

NoReq == [route |-> "none", kind |-> "none", name |-> "none"]
NoResponse == [kind |-> "none", status_code |-> 0, text |-> <<>>]
NoTask == [response |-> NoResponse, i |-> 0, e |-> "none", calls |-> 0,
           raised |-> FALSE, loop |-> NoLoop]
NoResp == [status |-> 0, body |-> "none", dispatched |-> FALSE, executed |-> 0]

\* Mutant: run_until_complete without the already-running check.
LoopRefusesUnchecked(l) == l = NoLoop

\* ------------------------------------------------- the event loop (asyncio)
\* loop.run_until_complete raises RuntimeError when the loop is already running;
\* calling it on None raises AttributeError.
LoopRefuses(l) == l = NoLoop \/ running[l] # NoThread

\* --------------------------------------------------------- initialization
\* init_application, line 113: the unlocked test of the global.
InitCheck(t) ==
    /\ pc[t] = "init_call"
    /\ IF application_event_loop = NoLoop
       THEN pc' = [pc EXCEPT ![t] = "init_create"]
       ELSE /\ pc' = [pc EXCEPT ![t] = "init_returned"]
    /\ UNCHANGED <<application_event_loop, initialized, running, loopsCreated,
                   initializeCalls, initInvocations, req, task, sent, resp, environ, missing_vars>>

\* init_application, lines 114-115: create a loop and store it in the global.
InitCreateLoop(t) ==
    /\ pc[t] = "init_create"
    /\ loopsCreated' = loopsCreated + 1
    /\ application_event_loop' = loopsCreated + 1
    /\ pc' = [pc EXCEPT ![t] = "init_run"]
    /\ UNCHANGED <<initialized, running, initializeCalls, initInvocations,
                   req, task, sent, resp, environ, missing_vars>>

\* init_application, line 118: read the global again and enter run_until_complete;
\* the coroutine starts (initialize_application, line 100) or the loop refuses.
InitRun(t) ==
    /\ pc[t] = "init_run"
    /\ LET l == application_event_loop IN
       IF LoopRefuses(l)
       THEN /\ pc' = [pc EXCEPT ![t] = "init_raised"]
            /\ UNCHANGED <<running, task, initializeCalls>>
       ELSE /\ running' = [running EXCEPT ![l] = t]
            /\ task' = [task EXCEPT ![t] = [NoTask EXCEPT !.loop = l]]
            /\ IF ~initialized
               THEN /\ initializeCalls' = initializeCalls + 1
                    /\ pc' = [pc EXCEPT ![t] = "init_await"]
               ELSE /\ pc' = [pc EXCEPT ![t] = "init_leave"]
                    /\ UNCHANGED initializeCalls
    /\ UNCHANGED <<application_event_loop, initialized, loopsCreated, initInvocations,
                   req, sent, resp, environ, missing_vars>>

\* initialize_application, lines 102-103: application.initialize() completes
\* (the flag is set) or raises (the flag is left as it was).
InitializeDone(t) ==
    /\ pc[t] = "init_await"
    /\ \E ok \in BOOLEAN :
         /\ initialized' = (IF ok THEN TRUE ELSE initialized)
         /\ task' = [task EXCEPT ![t].raised = ~ok]
    /\ pc' = [pc EXCEPT ![t] = "init_leave"]
    /\ UNCHANGED <<application_event_loop, running, loopsCreated, initializeCalls,
                   initInvocations, req, sent, resp, environ, missing_vars>>

\* run_until_complete returns or re-raises; the loop stops running.
InitLeave(t) ==
    /\ pc[t] = "init_leave"
    /\ running' = [running EXCEPT ![task[t].loop] = NoThread]
    /\ pc' = [pc EXCEPT ![t] = IF task[t].raised THEN "init_raised" ELSE "init_returned"]
    /\ task' = [task EXCEPT ![t] = NoTask]
    /\ UNCHANGED <<application_event_loop, initialized, loopsCreated, initializeCalls,
                   initInvocations, req, sent, resp, environ, missing_vars>>

\* ------------------------------------------- harness: concurrent callers
\* A caller invokes init_application(); callers run on concurrent threads.
InitInvoke(t) ==
    /\ pc[t] \in {"caller", "init_returned", "init_raised"}
    /\ initInvocations < MaxInitInvocations
    /\ initInvocations' = initInvocations + 1
    /\ pc' = [pc EXCEPT ![t] = "init_call"]
    /\ UNCHANGED <<application_event_loop, initialized, running, loopsCreated,
                   initializeCalls, req, task, sent, resp, environ, missing_vars>>

InitInit ==
    /\ application_event_loop = NoLoop
    /\ initialized = FALSE
    /\ running = [l \in Loops |-> NoThread]
    /\ loopsCreated = 0
    /\ initializeCalls = 0
    /\ initInvocations = 0
    /\ pc = [t \in AllThreads |-> IF t = MainThread THEN "absent" ELSE "caller"]
    /\ req = [t \in AllThreads |-> NoReq]
    /\ task = [t \in AllThreads |-> NoTask]
    /\ sent = [t \in AllThreads |-> <<>>]
    /\ resp = [t \in AllThreads |-> NoResp]
    /\ environ = MandatoryVars
    /\ missing_vars = <<>>

InitNext ==
    \/ \E t \in Threads : InitInvoke(t)
    \/ \E t \in Threads : InitCheck(t)
    \/ \E t \in Threads : InitCreateLoop(t)
    \/ \E t \in Threads : InitRun(t)
    \/ \E t \in Threads : InitializeDone(t)
    \/ \E t \in Threads : InitLeave(t)

SpecInit == InitInit /\ [][InitNext]_vars


\* Mutant: only the bot token is tested.
MissingVarsTokenOnly(env) ==
    IF "TELEGRAM_TOKEN" \in env THEN <<>> ELSE <<"TELEGRAM_TOKEN">>

\* ------------------------------------------------------------ module import
\* Lines 20-33: collect the missing mandatory variables, in source order, and
\* raise ValueError when there are any; otherwise line 123 calls init_application.
MissingVars(env) ==
    (IF "TELEGRAM_TOKEN" \in env THEN <<>> ELSE <<"TELEGRAM_TOKEN">>)
    \o (IF "GEMINI_API_KEY" \in env THEN <<>> ELSE <<"GEMINI_API_KEY">>)

ImportModule(t) ==
    /\ pc[t] = "import"
    /\ missing_vars' = MissingVars(environ)
    /\ IF missing_vars' # <<>>
       THEN /\ pc' = [pc EXCEPT ![t] = "crashed"]
            /\ UNCHANGED initInvocations
       ELSE /\ pc' = [pc EXCEPT ![t] = "init_call"]
            /\ initInvocations' = initInvocations + 1
    /\ UNCHANGED <<application_event_loop, initialized, running, loopsCreated,
                   initializeCalls, req, task, sent, resp, environ>>

\* An exception raised by init_application at line 123 ends the import.
ImportFails(t) ==
    /\ pc[t] = "init_raised"
    /\ pc' = [pc EXCEPT ![t] = "crashed"]
    /\ UNCHANGED <<application_event_loop, initialized, running, loopsCreated,
                   initializeCalls, initInvocations, req, task, sent, resp, environ,
                   missing_vars>>

\* main, lines 169-174: flask_app.run serves requests on concurrent threads.
Serve(t) ==
    /\ pc[t] = "init_returned"
    /\ pc' = [pc EXCEPT ![t] = "serving"]
    /\ UNCHANGED <<application_event_loop, initialized, running, loopsCreated,
                   initializeCalls, initInvocations, req, task, sent, resp, environ,
                   missing_vars>>

Serving == pc[MainThread] = "serving"

\* ------------------------------------------------------------- message texts
\* A text is a sequence of units; a literal of the source is one unit.
Greeting(first_name) ==
    <<"Xin chao ", first_name, "! Toi la bot su dung Google Gemini AI.">>
HelpText == <<"Gui tin nhan cho toi va toi se su dung Google Gemini AI de tra loi ban.">>
NoCandidatesText == <<"Khong nhan duoc phan hoi tu Gemini API.">>
ApiErrorText(status_code, text) == <<"Loi API: ", ToString(status_code), " - ">> \o text
ExceptionText(e) == <<"Xin loi, da xay ra loi: ", e>>

Contains(text, unit) == \E k \in 1..Len(text) : text[k] = unit
ContainsAll(text, part) == \A k \in 1..Len(part) : Contains(text, part[k])

Min(a, b) == IF a < b THEN a ELSE b
\* Python's s[a:b] for 0 <= a <= b.
Slice(s, a, b) == SubSeq(s, a + 1, Min(b, Len(s)))

\* One awaited Bot API call of the running task, with its outcome.
Send(t, line, text, ok) ==
    sent' = [sent EXCEPT ![t] = Append(@, [line |-> line, text |-> text, ok |-> ok])]

\* Mutant: commands are not filtered out of the text handler, registered first.
HandlerForUnfiltered(u) ==
    CASE u.kind \in {"start", "help", "command", "text"} -> "typing"
      [] OTHER -> "returning"

\* Mutant: the message handler is registered without the TEXT filter.
HandlerForAnyMessage(u) ==
    CASE u.kind = "start" -> "start"
      [] u.kind = "help" -> "help_command"
      [] u.kind \in {"text", "notext"} -> "typing"
      [] OTHER -> "returning"

\* ------------------------------------------------------------------ handlers
\* Lines 91-93: the handler that process_update picks for an update.
HandlerFor(u) ==
    CASE u.kind = "start" -> "start"
      [] u.kind = "help" -> "help_command"
      [] u.kind = "text" -> "typing"
      [] OTHER -> "returning"

\* start, lines 47-50.
Start(t) ==
    /\ pc[t] = "start"
    /\ \E ok \in BOOLEAN :
         /\ Send(t, 48, Greeting(req[t].name), ok)
         /\ task' = [task EXCEPT ![t].raised = ~ok]
    /\ pc' = [pc EXCEPT ![t] = "returning"]
    /\ UNCHANGED <<application_event_loop, initialized, running, loopsCreated,
                   initializeCalls, initInvocations, req, resp, environ, missing_vars>>

\* help_command, lines 54-56.
HelpCommand(t) ==
    /\ pc[t] = "help_command"
    /\ \E ok \in BOOLEAN :
         /\ Send(t, 54, HelpText, ok)
         /\ task' = [task EXCEPT ![t].raised = ~ok]
    /\ pc' = [pc EXCEPT ![t] = "returning"]
    /\ UNCHANGED <<application_event_loop, initialized, running, loopsCreated,
                   initializeCalls, initInvocations, req, resp, environ, missing_vars>>

\* gemini_response, line 62: the typing indicator, awaited outside the try.
Typing(t) ==
    /\ pc[t] = "typing"
    /\ \E ok \in BOOLEAN :
         /\ Send(t, 62, <<"typing">>, ok)
         /\ task' = [task EXCEPT ![t].raised = ~ok]
         /\ pc' = [pc EXCEPT ![t] = IF ok THEN "generate" ELSE "returning"]
    /\ UNCHANGED <<application_event_loop, initialized, running, loopsCreated,
                   initializeCalls, initInvocations, req, resp, environ, missing_vars>>

\* What requests.post and response.json() can give (lines 69-74).
GeminiResponses ==
    {[kind |-> "raise", status_code |-> 0, text |-> <<>>]}
    \cup {[kind |-> "error_status", status_code |-> s, text |-> b] :
             s \in ErrorStatuses, b \in Bodies}
    \cup {[kind |-> k, status_code |-> 200, text |-> <<>>] :
             k \in {"no_candidates_key", "empty_candidates", "malformed"}}
    \cup {[kind |-> "candidate", status_code |-> 200, text |-> T] : T \in Texts}

\* Mutant: an empty candidate text is taken for a missing candidate.
AfterResponseTruthy(r) ==
    IF r.kind \in {"raise", "malformed"} THEN "except"
    ELSE IF r.status_code = 200
         THEN IF r.kind = "candidate" /\ r.text # <<>>
              THEN IF Len(r.text) > MaxMessageLength THEN "chunk" ELSE "whole"
              ELSE "nocandidates"
         ELSE "apierror"

\* Mutant: a transport failure is retried.
AfterResponseRetrying(r) ==
    IF r.kind = "raise" THEN "generate"
    ELSE IF r.kind = "malformed" THEN "except"
    ELSE IF r.status_code = 200
         THEN IF r.kind = "candidate"
              THEN IF Len(r.text) > MaxMessageLength THEN "chunk" ELSE "whole"
              ELSE "nocandidates"
         ELSE "apierror"

\* Lines 71-85: where the handler goes with a response.
AfterResponse(r) ==
    IF r.kind \in {"raise", "malformed"} THEN "except"
    ELSE IF r.status_code = 200
         THEN IF r.kind = "candidate"
              THEN IF Len(r.text) > MaxMessageLength THEN "chunk" ELSE "whole"
              ELSE "nocandidates"
         ELSE "apierror"

\* gemini_response, lines 64-75: the blocking call to the generative service.
Generate(t) ==
    /\ pc[t] = "generate"
    /\ \E r \in GeminiResponses :
         /\ task' = [task EXCEPT ![t].response = r,
                                 ![t].calls = @ + 1,
                                 ![t].i = 0,
                                 ![t].e = IF r.kind = "raise" THEN "ConnectionError"
                                          ELSE IF r.kind = "malformed" THEN "KeyError"
                                          ELSE @]
         /\ pc' = [pc EXCEPT ![t] = AfterResponse(r)]
    /\ UNCHANGED <<application_event_loop, initialized, running, loopsCreated,
                   initializeCalls, initInvocations, req, sent, resp, environ,
                   missing_vars>>

\* Mutant: the loop steps one unit past the segment it sent.
NextOffsetSkipping(i) == i + MaxMessageLength + 1

\* Line 76: the offset after i in range(0, len(response_text), 4096)
NextOffset(i) == i + MaxMessageLength

\* Mutant: the slice ignores the loop variable.
SegmentFirst(text, i) == Slice(text, 0, MaxMessageLength)

\* Line 77: the segment sent at offset i.
Segment(text, i) == Slice(text, i, i + MaxMessageLength)

\* Mutant: a failed segment is logged and the loop goes on.
SendChunkContinuing(t) ==
    /\ pc[t] = "chunk"
    /\ LET text == task[t].response.text
           i == task[t].i
       IN \E ok \in BOOLEAN :
            /\ Send(t, 77, Segment(text, i), ok)
            /\ task' = [task EXCEPT ![t].i = NextOffset(i)]
            /\ pc' = [pc EXCEPT ![t] = IF NextOffset(i) < Len(text)
                                       THEN "chunk" ELSE "returning"]
    /\ UNCHANGED <<application_event_loop, initialized, running, loopsCreated,
                   initializeCalls, initInvocations, req, resp, environ, missing_vars>>

\* gemini_response, lines 76-77: one iteration of the chunk loop.
SendChunk(t) ==
    /\ pc[t] = "chunk"
    /\ LET text == task[t].response.text
           i == task[t].i
       IN \E ok \in BOOLEAN :
            /\ Send(t, 77, Segment(text, i), ok)
            /\ IF ok
               THEN /\ task' = [task EXCEPT ![t].i = NextOffset(i)]
                    /\ pc' = [pc EXCEPT ![t] = IF NextOffset(i) < Len(text)
                                               THEN "chunk" ELSE "returning"]
               ELSE /\ task' = [task EXCEPT ![t].e = "TelegramError"]
                    /\ pc' = [pc EXCEPT ![t] = "except"]
    /\ UNCHANGED <<application_event_loop, initialized, running, loopsCreated,
                   initializeCalls, initInvocations, req, resp, environ, missing_vars>>

\* A reply awaited inside the try (lines 79, 82, 85): done, or on to the except.
ReplyInTry(t, line, text) ==
    \E ok \in BOOLEAN :
      /\ Send(t, line, text, ok)
      /\ IF ok
         THEN /\ pc' = [pc EXCEPT ![t] = "returning"]
              /\ UNCHANGED task
         ELSE /\ task' = [task EXCEPT ![t].e = "TelegramError"]
              /\ pc' = [pc EXCEPT ![t] = "except"]

\* gemini_response, line 79.
SendWhole(t) ==
    /\ pc[t] = "whole"
    /\ ReplyInTry(t, 79, task[t].response.text)
    /\ UNCHANGED <<application_event_loop, initialized, running, loopsCreated,
                   initializeCalls, initInvocations, req, resp, environ, missing_vars>>

\* gemini_response, lines 81-82.
SendNoCandidates(t) ==
    /\ pc[t] = "nocandidates"
    /\ ReplyInTry(t, 82, NoCandidatesText)
    /\ UNCHANGED <<application_event_loop, initialized, running, loopsCreated,
                   initializeCalls, initInvocations, req, resp, environ, missing_vars>>

\* gemini_response, lines 84-85.
SendApiError(t) ==
    /\ pc[t] = "apierror"
    /\ ReplyInTry(t, 85, ApiErrorText(task[t].response.status_code, task[t].response.text))
    /\ UNCHANGED <<application_event_loop, initialized, running, loopsCreated,
                   initializeCalls, initInvocations, req, resp, environ, missing_vars>>

\* gemini_response, lines 86-88: the except clause; its own reply is unguarded.
SendException(t) ==
    /\ pc[t] = "except"
    /\ \E ok \in BOOLEAN :
         /\ Send(t, 88, ExceptionText(task[t].e), ok)
         /\ task' = [task EXCEPT ![t].raised = ~ok]
    /\ pc' = [pc EXCEPT ![t] = "returning"]
    /\ UNCHANGED <<application_event_loop, initialized, running, loopsCreated,
                   initializeCalls, initInvocations, req, resp, environ, missing_vars>>


\* -------------------------------------------------------------- Flask routes
RENDER_EXTERNAL_HOSTNAME == "gemini-bot-chat.onrender.com"
TELEGRAM_TOKEN == "token"

\* What Update.de_json gives for a body that parses as JSON.
\* The sender's first name is read by start alone (line 47) and is drawn from
\* Names for /start; the other updates carry one fixed sender.
Updates ==
    {[route |-> "webhook", kind |-> "start", name |-> n] : n \in Names}
    \cup {[route |-> "webhook", kind |-> k, name |-> "An"] :
             k \in {"help", "command", "text", "notext"}}
    \cup {[route |-> "webhook", kind |-> "null", name |-> "none"]}

BadBody == [route |-> "webhook", kind |-> "badjson", name |-> "none"]
SetWebhookReq == [route |-> "set_webhook", kind |-> "none", name |-> "none"]
HealthReq == [route |-> "healthz", kind |-> "none", name |-> "none"]

\* Mutant: the except clause reports the failure to the platform.
WebhookErrorResponse500 == [status |-> 500, body |-> "Error"]

\* Lines 150-153: what webhook_handler returns from its except clause.
WebhookErrorResponse == [status |-> 200, body |-> "Error"]
\* Line 149.
WebhookOkResponse == [status |-> 200, body |-> "OK"]

Respond(t, r, dispatched, executed) ==
    resp' = [resp EXCEPT ![t] = [status |-> r.status, body |-> r.body,
                                 dispatched |-> dispatched, executed |-> executed]]

\* Mutant: the probe goes through the loop and fails while it is running.
HealthViaBridge(t) ==
    /\ Serving /\ pc[t] = "idle"
    /\ req' = [req EXCEPT ![t] = HealthReq]
    /\ IF LoopRefuses(application_event_loop)
       THEN Respond(t, [status |-> 500, body |-> "Error"], FALSE, 0)
       ELSE Respond(t, [status |-> 200, body |-> "OK"], FALSE, 0)
    /\ pc' = [pc EXCEPT ![t] = "responded"]
    /\ UNCHANGED <<application_event_loop, initialized, running, loopsCreated,
                   initializeCalls, initInvocations, task, sent, environ, missing_vars>>

\* health, lines 129-132.
Health(t) ==
    /\ Serving /\ pc[t] = "idle"
    /\ req' = [req EXCEPT ![t] = HealthReq]
    /\ Respond(t, [status |-> 200, body |-> "OK"], FALSE, 0)
    /\ pc' = [pc EXCEPT ![t] = "responded"]
    /\ UNCHANGED <<application_event_loop, initialized, running, loopsCreated,
                   initializeCalls, initInvocations, task, sent, environ, missing_vars>>

\* webhook_handler, line 140 raising (the body is not JSON), then lines 150-153.
WebhookBadBody(t) ==
    /\ Serving /\ pc[t] = "idle"
    /\ req' = [req EXCEPT ![t] = BadBody]
    /\ Respond(t, WebhookErrorResponse, FALSE, 0)
    /\ pc' = [pc EXCEPT ![t] = "responded"]
    /\ UNCHANGED <<application_event_loop, initialized, running, loopsCreated,
                   initializeCalls, initInvocations, task, sent, environ, missing_vars>>

\* webhook_handler, lines 140-147: the body parses, de_json gives u (an Update
\* or None), and run_until_complete(process_update(u)) is called with it: the
\* loop refuses (lines 150-153) or process_update starts and picks a handler.
WebhookRun(t) ==
    /\ Serving /\ pc[t] = "idle"
    /\ \E u \in Updates :
         /\ req' = [req EXCEPT ![t] = u]
         /\ LET l == application_event_loop IN
            IF LoopRefuses(l)
            THEN /\ Respond(t, WebhookErrorResponse, TRUE, 0)
                 /\ pc' = [pc EXCEPT ![t] = "responded"]
                 /\ UNCHANGED <<running, task>>
            ELSE /\ running' = [running EXCEPT ![l] = t]
                 /\ task' = [task EXCEPT ![t] = [NoTask EXCEPT !.loop = l]]
                 /\ pc' = [pc EXCEPT ![t] = HandlerFor(u)]
                 /\ UNCHANGED resp
    /\ UNCHANGED <<application_event_loop, initialized, loopsCreated,
                   initializeCalls, initInvocations, sent, environ, missing_vars>>

\* process_update has finished (it logs what a handler raised and does not
\* re-raise); run_until_complete returns and line 149 answers.
WebhookReturn(t) ==
    /\ pc[t] = "returning" /\ req[t].route = "webhook"
    /\ running' = [running EXCEPT ![task[t].loop] = NoThread]
    /\ Respond(t, WebhookOkResponse, TRUE, 1)
    /\ task' = [task EXCEPT ![t] = NoTask]
    /\ sent' = [sent EXCEPT ![t] = <<>>]
    /\ pc' = [pc EXCEPT ![t] = "responded"]
    /\ UNCHANGED <<application_event_loop, initialized, loopsCreated,
                   initializeCalls, initInvocations, req, environ, missing_vars>>

\* Line 158.
WebhookUrl == <<"https://", RENDER_EXTERNAL_HOSTNAME, "/", TELEGRAM_TOKEN>>

\* set_webhook_handler, lines 158-163: run_until_complete(set_webhook(url)) is
\* called: the loop refuses (lines 165-167) or the coroutine starts.
SetWebhookRun(t) ==
    /\ Serving /\ pc[t] = "idle"
    /\ req' = [req EXCEPT ![t] = SetWebhookReq]
    /\ LET l == application_event_loop IN
       IF LoopRefuses(l)
       THEN /\ Respond(t, [status |-> 500, body |-> "Loi khi thiet lap webhook"], TRUE, 0)
            /\ pc' = [pc EXCEPT ![t] = "responded"]
            /\ UNCHANGED <<running, task>>
       ELSE /\ running' = [running EXCEPT ![l] = t]
            /\ task' = [task EXCEPT ![t] = [NoTask EXCEPT !.loop = l]]
            /\ pc' = [pc EXCEPT ![t] = "set_webhook"]
            /\ UNCHANGED resp
    /\ UNCHANGED <<application_event_loop, initialized, loopsCreated,
                   initializeCalls, initInvocations, sent, environ, missing_vars>>

\* Line 163: the awaited bot.set_webhook(url=webhook_url).
SetWebhookCall(t) ==
    /\ pc[t] = "set_webhook"
    /\ \E ok \in BOOLEAN :
         /\ Send(t, 163, WebhookUrl, ok)
         /\ task' = [task EXCEPT ![t].raised = ~ok]
    /\ pc' = [pc EXCEPT ![t] = "returning"]
    /\ UNCHANGED <<application_event_loop, initialized, running, loopsCreated,
                   initializeCalls, initInvocations, req, resp, environ, missing_vars>>

\* Mutant: the handler answers 200 whatever set_webhook did.
SetWebhookResultAlwaysOk(raised) ==
    [status |-> 200, body |-> "Webhook da duoc thiet lap thanh cong"]

\* Lines 164 and 167: the answer after set_webhook returned or raised.
SetWebhookResult(raised) ==
    IF raised THEN [status |-> 500, body |-> "Loi khi thiet lap webhook"]
    ELSE [status |-> 200, body |-> "Webhook da duoc thiet lap thanh cong"]

\* set_webhook_handler, lines 164-167: run_until_complete returns or re-raises.
SetWebhookReturn(t) ==
    /\ pc[t] = "returning" /\ req[t].route = "set_webhook"
    /\ running' = [running EXCEPT ![task[t].loop] = NoThread]
    /\ Respond(t, SetWebhookResult(task[t].raised), TRUE, 1)
    /\ task' = [task EXCEPT ![t] = NoTask]
    /\ sent' = [sent EXCEPT ![t] = <<>>]
    /\ pc' = [pc EXCEPT ![t] = "responded"]
    /\ UNCHANGED <<application_event_loop, initialized, loopsCreated,
                   initializeCalls, initInvocations, req, environ, missing_vars>>

\* The response has gone out; the request thread takes the next request.
Finish(t) ==
    /\ pc[t] = "responded"
    /\ pc' = [pc EXCEPT ![t] = "idle"]
    /\ req' = [req EXCEPT ![t] = NoReq]
    /\ resp' = [resp EXCEPT ![t] = NoResp]
    /\ UNCHANGED <<application_event_loop, initialized, running, loopsCreated,
                   initializeCalls, initInvocations, task, sent, environ, missing_vars>>

\* ------------------------------------------------------------- the program
Init ==
    /\ application_event_loop = NoLoop
    /\ initialized = FALSE
    /\ running = [l \in Loops |-> NoThread]
    /\ loopsCreated = 0
    /\ initializeCalls = 0
    /\ initInvocations = 0
    /\ pc = [t \in AllThreads |-> IF t = MainThread THEN "import" ELSE "idle"]
    /\ req = [t \in AllThreads |-> NoReq]
    /\ task = [t \in AllThreads |-> NoTask]
    /\ sent = [t \in AllThreads |-> <<>>]
    /\ resp = [t \in AllThreads |-> NoResp]
    /\ environ \in SUBSET MandatoryVars
    /\ missing_vars = <<>>

Next ==
    \/ ImportModule(MainThread)
    \/ InitCheck(MainThread)
    \/ InitCreateLoop(MainThread)
    \/ InitRun(MainThread)
    \/ InitializeDone(MainThread)
    \/ InitLeave(MainThread)
    \/ ImportFails(MainThread)
    \/ Serve(MainThread)
    \/ \E t \in Threads : Health(t)
    \/ \E t \in Threads : WebhookBadBody(t)
    \/ \E t \in Threads : WebhookRun(t)
    \/ \E t \in Threads : Start(t)
    \/ \E t \in Threads : HelpCommand(t)
    \/ \E t \in Threads : Typing(t)
    \/ \E t \in Threads : Generate(t)
    \/ \E t \in Threads : SendChunk(t)
    \/ \E t \in Threads : SendWhole(t)
    \/ \E t \in Threads : SendNoCandidates(t)
    \/ \E t \in Threads : SendApiError(t)
    \/ \E t \in Threads : SendException(t)
    \/ \E t \in Threads : WebhookReturn(t)
    \/ \E t \in Threads : SetWebhookRun(t)
    \/ \E t \in Threads : SetWebhookCall(t)
    \/ \E t \in Threads : SetWebhookReturn(t)
    \/ \E t \in Threads : Finish(t)

Spec == Init /\ [][Next]_vars


\* ================================================================== claims
Responded(t) == pc[t] = "responded"
\* The coroutine of t has finished and run_until_complete is about to return.
TaskOver(t) == pc[t] = "returning"
OnLoop(t) == task[t].loop # NoLoop

Lines(t) == [k \in 1..Len(sent[t]) |-> sent[t][k].line]
Entries(t, lines) == SelectSeq(sent[t], LAMBDA m : m.line \in lines)
TextsOf(entries) == [k \in 1..Len(entries) |-> entries[k].text]
AnswerSegments(t) == TextsOf(Entries(t, {77, 79}))
ErrorMessages(t) == TextsOf(Entries(t, {82, 85, 88}))
Messages(t) == TextsOf(Entries(t, {48, 54, 77, 79, 82, 85, 88}))
AllSendsOk(t) == \A k \in 1..Len(sent[t]) : sent[t][k].ok

RECURSIVE Concat(_)
Concat(ss) == IF ss = <<>> THEN <<>> ELSE Head(ss) \o Concat(Tail(ss))
CeilDiv(a, b) == (a + b - 1) \div b

\* C1: every POST to the webhook route is answered with status 200, whatever
\* the body was and whether or not the loop accepted or completed the task.
C1_WebhookAlways200 ==
    \A t \in Threads :
        (Responded(t) /\ req[t].route = "webhook") => resp[t].status = 200

\* C1 witness: a webhook request was answered from the except clause after the
\* loop refused its task.
C1_Witness ==
    \E t \in Threads :
        /\ Responded(t) /\ req[t].route = "webhook"
        /\ resp[t].body = "Error" /\ resp[t].dispatched

\* C2 (as claimed): the task of every well-formed update has been executed
\* exactly once when its request is answered.
C2_ExecutedExactlyOnce ==
    \A t \in Threads :
        (Responded(t) /\ req[t].route = "webhook" /\ req[t].kind \notin {"badjson", "null"})
            => resp[t].executed = 1

C4_ChunkedReply ==
    \A t \in Threads :
        LET T == task[t].response.text
            segs == AnswerSegments(t)
        IN (/\ TaskOver(t) /\ task[t].response.kind = "candidate"
            /\ Len(T) > MaxMessageLength /\ AllSendsOk(t))
           => /\ Len(segs) = CeilDiv(Len(T), MaxMessageLength)
              /\ \A k \in 1..Len(segs) : Len(segs[k]) <= MaxMessageLength
              /\ \A k \in 1..(Len(segs) - 1) : Len(segs[k]) = MaxMessageLength
              /\ Concat(segs) = T
              /\ Messages(t) = segs

\* C4 witness: a chunked reply is complete and its last segment is a short one.
C4_Witness ==
    \E t \in Threads :
        /\ TaskOver(t) /\ task[t].response.kind = "candidate" /\ AllSendsOk(t)
        /\ Len(task[t].response.text) > MaxMessageLength
        /\ Len(AnswerSegments(t)) >= 2
        /\ Len(AnswerSegments(t)[Len(AnswerSegments(t))]) < MaxMessageLength

\* C5: for a generated text within the limit (the limit included) the handler
\* issues exactly one answer send, and its text is the generated text.
C5_SingleReply ==
    \A t \in Threads :
        (/\ TaskOver(t) /\ task[t].response.kind = "candidate"
         /\ Len(task[t].response.text) <= MaxMessageLength)
        => AnswerSegments(t) = <<task[t].response.text>>

\* C5 witness: a text of exactly the limit was replied to.
C5_Witness ==
    \E t \in Threads :
        /\ TaskOver(t) /\ task[t].response.kind = "candidate"
        /\ Len(task[t].response.text) = MaxMessageLength
        /\ Len(AnswerSegments(t)) = 1

\* C6 (as claimed): a body that does not parse, or that parses to a null
\* update, is answered 200 without run_until_complete(process_update(...))
\* having been called.
C6_NoDispatchWithoutUpdate ==
    \A t \in Threads :
        (Responded(t) /\ req[t].kind \in {"badjson", "null"})
            => (resp[t].status = 200 /\ ~resp[t].dispatched)

C8_OneApiErrorMessage ==
    \A t \in Threads :
        (TaskOver(t) /\ task[t].response.kind = "error_status")
        => /\ Len(Messages(t)) = 1
           /\ Contains(Messages(t)[1], ToString(task[t].response.status_code))
           /\ ContainsAll(Messages(t)[1], task[t].response.text)
           /\ AnswerSegments(t) = <<>>

\* C9 (as claimed): a transport exception or an answer without candidates
\* gives exactly one error message and no answer segment, and every processed
\* text update gives at least one outbound message.
C9_NeverSilentlyDropped ==
    \A t \in Threads :
        /\ (TaskOver(t) /\ task[t].response.kind
                \in {"raise", "no_candidates_key", "empty_candidates"})
           => (Len(ErrorMessages(t)) = 1 /\ AnswerSegments(t) = <<>>)
        /\ (TaskOver(t) /\ req[t].kind = "text") => Len(Messages(t)) >= 1

\* C10: processing /start issues exactly one outbound call, a message that
\* contains the sender's first name, with no typing indicator and no call to
\* the generative service; /help issues exactly the static help message.
C10_CommandsReplyOnce ==
    \A t \in Threads :
        /\ (TaskOver(t) /\ req[t].kind = "start")
           => /\ Lines(t) = <<48>>
              /\ Contains(sent[t][1].text, req[t].name)
              /\ task[t].calls = 0
        /\ (TaskOver(t) /\ req[t].kind = "help")
           => /\ Lines(t) = <<54>>
              /\ sent[t][1].text = HelpText
              /\ task[t].calls = 0

\* C10 witness: a /start update has been processed.
C10_Witness ==
    \E t \in Threads :
        TaskOver(t) /\ req[t].kind = "start" /\ Len(sent[t]) = 1 /\ sent[t][1].ok


\* The registration call that set_webhook_handler is to issue, and its success.
RegistrationOk ==
    [line |-> 163,
     text |-> <<"https://", RENDER_EXTERNAL_HOSTNAME, "/", TELEGRAM_TOKEN>>,
     ok |-> TRUE]

\* A step in which thread t answers a request to the given route.
Answers(t, route) ==
    pc[t] # "responded" /\ pc'[t] = "responded" /\ req'[t].route = route

C11_AnswerStep ==
    \A t \in Threads :
        Answers(t, "set_webhook")
        => /\ resp'[t].status \in {200, 500}
           /\ resp'[t].status = 200 <=> sent[t] = <<RegistrationOk>>

C11_CallIssued ==
    \A t \in Threads :
        (TaskOver(t) /\ req[t].route = "set_webhook")
        => /\ Len(sent[t]) = 1
           /\ sent[t][1].line = 163
           /\ sent[t][1].text = RegistrationOk.text

\* C11: GET /set_webhook, when the loop runs its task, issues one registration
\* call with the URL https://<hostname>/<token>; it answers 200 exactly when
\* that call was issued and succeeded, and 500 otherwise (the call failed, or
\* the loop refused to run it).
C11_SetWebhookStatus == []C11_CallIssued /\ [][C11_AnswerStep]_vars

\* C11 witness: a registration that succeeded has been answered 200 while
\* another request's registration was refused.
C11_Witness ==
    \E t, u \in Threads :
        /\ Responded(t) /\ req[t].route = "set_webhook" /\ resp[t].status = 200
        /\ Responded(u) /\ req[u].route = "set_webhook" /\ resp[u].status = 500
        /\ resp[u].executed = 0


Range(q) == {q[k] : k \in 1..Len(q)}
Absent == MandatoryVars \ environ

\* C12: once the import has tested the environment, missing_vars lists exactly
\* the absent mandatory variables, each once; if any is absent the import has
\* failed with no event loop created, no initialization started and no request
\* ever served.
C12_FailFast ==
    /\ pc[MainThread] # "import"
       => (Range(missing_vars) = Absent /\ Len(missing_vars) = Cardinality(Absent))
    /\ Absent # {}
       => /\ pc[MainThread] \in {"import", "crashed"}
          /\ application_event_loop = NoLoop
          /\ loopsCreated = 0
          /\ initializeCalls = 0
          /\ initInvocations = 0
          /\ \A t \in Threads : pc[t] = "idle" /\ resp[t] = NoResp

\* C12 witness: the import has failed with both credentials absent.
C12_Witness ==
    /\ pc[MainThread] = "crashed"
    /\ missing_vars = <<"TELEGRAM_TOKEN", "GEMINI_API_KEY">>

\* C13: an update without text is handled by no handler: its task ends with
\* no outbound call (no message, no typing indicator), no call to the
\* generative service and nothing raised, and its request is answered 200.
C13_NoTextIgnored ==
    \A t \in Threads :
        /\ (OnLoop(t) /\ req[t].kind = "notext")
           => (TaskOver(t) /\ sent[t] = <<>> /\ task[t].calls = 0 /\ ~task[t].raised)
        /\ (Responded(t) /\ req[t].kind = "notext") => resp[t].status = 200

\* C13 witness: the task of an update without text has been run and answered.
C13_Witness ==
    \E t \in Threads :
        /\ Responded(t) /\ req[t].kind = "notext"
        /\ resp[t].executed = 1 /\ resp[t].body = "OK"


C14_Answer ==
    \A t \in Threads :
        (Responded(t) /\ req[t].route = "healthz")
            => (resp[t].status = 200 /\ resp[t].body = "OK")

C14_Frame ==
    \A t \in Threads :
        Answers(t, "healthz")
        => /\ UNCHANGED <<application_event_loop, initialized, running, loopsCreated,
                          initializeCalls, initInvocations, task, sent>>
           /\ \A u \in AllThreads \ {t} :
                pc'[u] = pc[u] /\ req'[u] = req[u] /\ resp'[u] = resp[u]

\* A request thread that is free can always have /healthz answered.
C14_Available ==
    \A t \in Threads : (Serving /\ pc[t] = "idle") => ENABLED Health(t)

\* C14: while the process serves, GET /healthz can be answered in every state,
\* a task running on the loop or not; the answer is 200 "OK", and answering it
\* changes neither the loop, the initialized flag, the running task nor any
\* other request.
C14_HealthIsPure == [](C14_Answer /\ C14_Available) /\ [][C14_Frame]_vars

\* C14 witness: /healthz has been answered while another thread's task is on
\* the loop.
C14_Witness ==
    \E t, u \in Threads :
        /\ Responded(t) /\ req[t].route = "healthz" /\ resp[t].status = 200
        /\ OnLoop(u) /\ running[task[u].loop] = u


TypingOk == [line |-> 62, text |-> <<"typing">>, ok |-> TRUE]

\* C15: in the task of a text update the typing indicator is sent, and has
\* completed, before the generative service is called, and nothing else is
\* sent before that call; when generation succeeds the answer segments follow
\* the typing indicator directly, the k-th being the slice at offset
\* (k-1)*limit, and each has completed before the next is issued.
C15_StepsInOrder ==
    \A t \in Threads :
        LET T == task[t].response.text
            n == Len(AnswerSegments(t))
        IN /\ (req[t].kind = "text" /\ task[t].calls = 0)
              => Lines(t) \in {<<>>, <<62>>}
           /\ pc[t] = "generate" => sent[t] = <<TypingOk>>
           /\ task[t].calls > 0 => (Len(sent[t]) >= 1 /\ sent[t][1] = TypingOk)
           /\ task[t].response.kind = "candidate"
              => /\ \A k \in 1..n :
                      /\ sent[t][k + 1].line \in {77, 79}
                      /\ sent[t][k + 1].text
                           = Slice(T, (k - 1) * MaxMessageLength, k * MaxMessageLength)
                      /\ k < n => sent[t][k + 1].ok
                 /\ (TaskOver(t) /\ AllSendsOk(t))
                    => (Len(sent[t]) = n + 1 /\ Concat(AnswerSegments(t)) = T)

\* C15 witness: a text of twice the limit plus one unit went out as typing
\* followed by three segments of limit, limit and one unit.
C15_Witness ==
    \E t \in Threads :
        /\ TaskOver(t) /\ AllSendsOk(t)
        /\ Len(task[t].response.text) = 2 * MaxMessageLength + 1
        /\ Lines(t) = <<62, 77, 77, 77>>
        /\ Len(sent[t][4].text) = 1


\* C16 (as claimed): when the typing indicator fails to send, the handler
\* still calls the generative service and sends an answer or an error message.
C16_TypingFailureNotFatal ==
    \A t \in Threads :
        (/\ TaskOver(t) /\ req[t].kind = "text"
         /\ sent[t] # <<>> /\ sent[t][1].line = 62 /\ ~sent[t][1].ok)
        => (task[t].calls = 1 /\ Len(Messages(t)) >= 1)

\* C17: the generative service is called at most once in the task of an
\* update, whatever it answered and whichever sends failed.
C17_SingleAttempt ==
    \A t \in Threads : task[t].calls <= 1

\* C17 witness: a task has ended after a transport failure of its one call
\* and a failed send of the error message.
C17_Witness ==
    \E t \in Threads :
        /\ TaskOver(t) /\ task[t].calls = 1
        /\ task[t].response.kind = "raise"
        /\ ~sent[t][Len(sent[t])].ok

\* C18: in a chunked reply a failed segment send is the last segment sent;
\* it is followed by exactly one more send, the error message of the except
\* clause, and by nothing after that.
C18_AbortOnFirstFailure ==
    \A t \in Threads :
        \A k \in 1..Len(sent[t]) :
            (sent[t][k].line = 77 /\ ~sent[t][k].ok)
            => \/ (k = Len(sent[t]) /\ pc[t] = "except")
               \/ /\ k + 1 = Len(sent[t])
                  /\ sent[t][k + 1].line = 88
                  /\ TaskOver(t)

\* C18 witness: a segment failed with more of the text left to send, and the
\* task ended after the one error message.
C18_Witness ==
    \E t \in Threads :
        LET n == Len(sent[t]) IN
        /\ TaskOver(t) /\ n >= 3
        /\ sent[t][n - 1].line = 77 /\ ~sent[t][n - 1].ok
        /\ sent[t][n].line = 88
        /\ task[t].i + MaxMessageLength < Len(task[t].response.text)

====
